---- MODULE Spec2Model ----
(***************************************************************************)
(* A model of py-pdf-merger (src/main.py): find_pdfs and its natural sort, *)
(* sanitize_bookmark_title, and merge_and_process with the files it reads  *)
(* and writes (the merged PDF and summary_index.json).                     *)
(*                                                                         *)
(* Strings of the program are sequences of one-character strings, so that  *)
(* slicing, splitting and comparison are computed as Python computes them. *)
(***************************************************************************)
EXTENDS Integers, Sequences, FiniteSets, TLC

VARIABLES
    \* ---- the file system
    inputDir,       \* the files under the input directory (a set of file records)
    outDirExists,   \* whether the output directory exists
    outputFile,     \* the file at args.output
    indexFile,      \* the file summary_index.json beside it
    \* ---- merge_and_process: its position and its locals
    pc,             \* "idle" | "loop" | "index" | "dump"
    pdfs,           \* the result of find_pdfs
    idx,            \* position of the for loop in pdfs (1-based)
    entries,        \* entries
    current_page,   \* current_page
    merger,         \* the PdfMerger: pages appended and outline items
    combined,       \* combined (existing_entries + entries)
    \* ---- history of the runs
    runs,           \* number of runs started
    outcome,        \* how the last run ended
    failed,         \* per processed source of this run: did a step of it fail
    outputBefore,   \* outputFile when the last run started
    indexBefore,    \* indexFile when the last run started
    outDirBefore,   \* outDirExists when the last run started
    \* ---- find_pdfs called on its own
    recursive,      \* args.recursive
    found,          \* results of the calls made so far, oldest first
    \* ---- sanitize_bookmark_title called on its own
    sTitle,         \* title
    sMaxLength,     \* max_length
    sResult,        \* the value returned
    sDone           \* whether the call has returned

fsVars   == <<inputDir, outDirExists, outputFile, indexFile>>
runVars  == <<pc, pdfs, idx, entries, current_page, merger, combined>>
histVars == <<runs, outcome, failed, outputBefore, indexBefore, outDirBefore>>
findVars == <<recursive, found>>
sanVars  == <<sTitle, sMaxLength, sResult, sDone>>
vars     == <<fsVars, runVars, histVars, findVars, sanVars>>

-----------------------------------------------------------------------------
(* Bounds of the model. *)

\* longest title handed to sanitize_bookmark_title on its own
MaxTitleLen == 5
\* largest max_length handed to sanitize_bookmark_title on its own
MaxLengthArg == 5
\* most files in the input directory when find_pdfs is called on its own
MaxDirFiles == 3
\* calls of find_pdfs on the same directory
MaxCalls == 2
\* most pages of one source PDF
MaxPages == 1
\* runs of merge_and_process against the same output path
MaxRuns == 2

-----------------------------------------------------------------------------
(* Python strings and sequences. *)

Str3(a, b, c) == <<a, b, c>>

\* s[:n] of Python: a negative n counts from the end.
PySlicePrefix(s, n) ==
    LET k == IF n >= 0
             THEN (IF n < Len(s) THEN n ELSE Len(s))
             ELSE (IF Len(s) + n > 0 THEN Len(s) + n ELSE 0)
    IN  SubSeq(s, 1, k)

Digits == {"0", "1", "2", "3", "4", "5", "6", "7", "8", "9"}

DigitVal(c) ==
    CASE c = "0" -> 0 [] c = "1" -> 1 [] c = "2" -> 2 [] c = "3" -> 3
      [] c = "4" -> 4 [] c = "5" -> 5 [] c = "6" -> 6 [] c = "7" -> 7
      [] c = "8" -> 8 [] c = "9" -> 9

\* str.lower() on one character of the alphabet the model uses.
LowerChar(c) ==
    CASE c = "A" -> "a" [] c = "B" -> "b" [] c = "D" -> "d" [] c = "F" -> "f"
      [] c = "P" -> "p" [] c = "Q" -> "q"
      [] OTHER -> c

Lower(s) == [i \in 1..Len(s) |-> LowerChar(s[i])]

\* The code point of a character (Python compares strings by code point).
Ord(c) ==
    CASE c = "-" -> 45 [] c = "." -> 46 [] c = "/" -> 47 [] c = ":" -> 58
      [] c \in Digits -> 48 + DigitVal(c)
      [] c = "A" -> 65 [] c = "B" -> 66 [] c = "D" -> 68 [] c = "F" -> 70
      [] c = "P" -> 80 [] c = "Q" -> 81
      [] c = "a" -> 97 [] c = "b" -> 98 [] c = "c" -> 99 [] c = "d" -> 100
      [] c = "f" -> 102 [] c = "p" -> 112 [] c = "q" -> 113 [] c = "s" -> 115
      [] c = "t" -> 116 [] c = "x" -> 120

\* s < t for two Python strings.
StrLess(s, t) ==
    \/ \E i \in 1..Len(s) :
          /\ i <= Len(t)
          /\ \A j \in 1..(i - 1) : s[j] = t[j]
          /\ Ord(s[i]) < Ord(t[i])
    \/ /\ Len(s) < Len(t)
       /\ \A j \in 1..Len(s) : s[j] = t[j]

\* int(text) of a run of decimal digits.
RECURSIVE IntOf(_)
IntOf(s) ==
    IF s = <<>> THEN 0
    ELSE 10 * IntOf(SubSeq(s, 1, Len(s) - 1)) + DigitVal(s[Len(s)])

\* s.lower().endswith('.pdf')
EndsWithPdf(s) ==
    /\ Len(s) >= 4
    /\ Lower(SubSeq(s, Len(s) - 3, Len(s))) = <<".", "p", "d", "f">>

\* Position of the last c in s, 0 when there is none.
LastIndexOf(s, c) ==
    LET hits == {i \in 1..Len(s) : s[i] = c}
    IN  IF hits = {} THEN 0 ELSE CHOOSE i \in hits : \A j \in hits : j <= i

\* os.path.basename
Basename(p) == SubSeq(p, LastIndexOf(p, "/") + 1, Len(p))

\* os.path.splitext(filename)[0]: the name up to its last dot; leading dots are
\* no extension.
SplitextRoot(f) ==
    LET d == LastIndexOf(f, ".")
    IN  IF d = 0 \/ \A i \in 1..(d - 1) : f[i] = "." THEN f ELSE SubSeq(f, 1, d - 1)

\* os.path.join(root, f)
PathJoin(root, f) == root \o <<"/">> \o f

-----------------------------------------------------------------------------
(* sanitize_bookmark_title *)

\* The characters of the class [\\/*?:"<>|].
Forbidden == {"\\", "/", "*", "?", ":", "\"", "<", ">", "|"}

\* re.sub(r'[\\/*?:"<>|]', '-', title)
ReplaceForbidden(title) ==
    [i \in 1..Len(title) |-> IF title[i] \in Forbidden THEN "-" ELSE title[i]]

\* A truncation that keeps max_length characters before the ellipsis.
TruncateKeepAll(title, max_length) ==
    PySlicePrefix(title, max_length) \o Str3(".", ".", ".")

\* title[:max_length-3] + "..."
Truncate(title, max_length) ==
    PySlicePrefix(title, max_length - 3) \o Str3(".", ".", ".")

sanitize_bookmark_title(title, max_length) ==
    LET t == ReplaceForbidden(title)
    IN  IF Len(t) > max_length THEN Truncate(t, max_length) ELSE t

\* max_length's default
DefaultMaxLength == 100

-----------------------------------------------------------------------------
(* find_pdfs and natural_sort_key *)

\* The longest prefix of s whose characters are all digits (digit = TRUE) or all
\* non-digits (digit = FALSE).
RECURSIVE RunLen(_, _)
RunLen(s, digit) ==
    IF s = <<>> \/ ((s[1] \in Digits) # digit) THEN 0
    ELSE 1 + RunLen(Tail(s), digit)

\* re.split(r'(\d+)', s): the runs of s, non-digit and digit runs alternating, the
\* first and the last a non-digit run that may be empty.
RECURSIVE SplitRuns(_, _)
SplitRuns(s, digit) ==
    IF s = <<>> THEN (IF digit THEN <<>> ELSE << <<>> >>)
    ELSE LET n == RunLen(s, digit)
         IN  <<SubSeq(s, 1, n)>> \o SplitRuns(SubSeq(s, n + 1, Len(s)), ~digit)

\* text.isdigit()
IsDigitRun(text) == text # <<>> /\ \A i \in 1..Len(text) : text[i] \in Digits

\* int(text) if text.isdigit() else text.lower()
KeyPart(text) ==
    IF IsDigitRun(text)
    THEN [isInt |-> TRUE,  int |-> IntOf(text), str |-> <<>>]
    ELSE [isInt |-> FALSE, int |-> 0,           str |-> Lower(text)]

natural_sort_key(s) ==
    LET runs_ == SplitRuns(s, FALSE)
    IN  [i \in 1..Len(runs_) |-> KeyPart(runs_[i])]

\* a < b for two parts at the same position of two keys (both int or both str).
PartLess(a, b) ==
    IF a.isInt /\ b.isInt THEN a.int < b.int ELSE StrLess(a.str, b.str)

\* k1 < k2 for two Python lists.
KeyLess(k1, k2) ==
    \/ \E i \in 1..Len(k1) :
          /\ i <= Len(k2)
          /\ \A j \in 1..(i - 1) : k1[j] = k2[j]
          /\ k1[i] # k2[i]
          /\ PartLess(k1[i], k2[i])
    \/ /\ Len(k1) < Len(k2)
       /\ \A j \in 1..Len(k1) : k1[j] = k2[j]

\* natural_sort_key(p) < natural_sort_key(q)
NaturalLess(p, q) == KeyLess(natural_sort_key(p), natural_sort_key(q))

\* x put into a sorted list behind every element that is not greater than it.
RECURSIVE InsertSorted(_, _)
InsertSorted(sorted_, x) ==
    IF sorted_ = <<>> THEN <<x>>
    ELSE IF NaturalLess(x, sorted_[1]) THEN <<x>> \o sorted_
    ELSE <<sorted_[1]>> \o InsertSorted(Tail(sorted_), x)

\* sorted(pdfs, key=natural_sort_key): a stable sort.
RECURSIVE SortedNatural(_)
SortedNatural(s) ==
    IF s = <<>> THEN <<>>
    ELSE InsertSorted(SortedNatural(SubSeq(s, 1, Len(s) - 1)), s[Len(s)])

RECURSIVE SelectPdfs(_, _, _)
SelectPdfs(input_dir, listing, rec) ==
    IF listing = <<>> THEN <<>>
    ELSE LET f    == listing[1]
             rest == SelectPdfs(input_dir, Tail(listing), rec)
         IN  IF (rec \/ LastIndexOf(f, "/") = 0) /\ EndsWithPdf(f)
             THEN <<PathJoin(input_dir, f)>> \o rest
             ELSE rest

\* listing: the files under input_dir, by their paths relative to it, in the order
\* os.walk yields them; os.listdir yields those of the top level.
find_pdfs(input_dir, listing, rec) ==
    SortedNatural(SelectPdfs(input_dir, listing, rec))

\* args.input
InputRoot == <<"d">>

\* The orders in which the operating system may list a set of files.
Listings(files) ==
    {s \in [1..Cardinality(files) -> files] :
        \A i, j \in 1..Cardinality(files) : i # j => s[i] # s[j]}

-----------------------------------------------------------------------------
(* The files. *)

\* A file under the input directory: its path relative to it, the pages and the
\* declared title a reader finds in it, and whether each of the three readers of
\* a source (get_pdf_metadata, extract_text_from_pdf, merger.append) can read it.
\* A file that merger.append cannot read enters nothing whatever the other two
\* read, so such a file is taken as unreadable to all three.
FileConds ==
    {c \in [meta_ok : BOOLEAN, text_ok : BOOLEAN, append_ok : BOOLEAN] :
        c.append_ok \/ (~c.meta_ok /\ ~c.text_ok)}

MakeFile(n, t, p, c) ==
    [name |-> n, title |-> t, pages |-> p,
     meta_ok |-> c.meta_ok, text_ok |-> c.text_ok, append_ok |-> c.append_ok]

\* The names of the input files of merge_and_process.
RunNames ==
    { <<"a", "2", ".", "p", "d", "f">>,
      <<"a", "1", "0", ".", "p", "d", "f">>,
      <<"s", "/", "b", ".", "p", "d", "f">> }

\* The title declared in the metadata of a file, by its name; empty: none.
TitleOf(n) == IF n = <<"a", "1", "0", ".", "p", "d", "f">> THEN <<"Q", ":", "1">> ELSE <<>>

\* The names of the input files when find_pdfs is called on its own.
FindNames ==
    { <<"a", "1", ".", "p", "d", "f">>,
      <<"a", "2", ".", "p", "d", "f">>,
      <<"a", "1", "0", ".", "p", "d", "f">>,
      <<"a", "0", "1", ".", "p", "d", "f">>,
      <<"A", "1", ".", "p", "d", "f">>,
      <<"b", ".", "P", "D", "F">>,
      <<"c", ".", "t", "x", "t">>,
      <<"s", "/", "a", "3", ".", "p", "d", "f">> }

PlainFile(n) ==
    MakeFile(n, <<>>, 1, [meta_ok |-> TRUE, text_ok |-> TRUE, append_ok |-> TRUE])

FileNames(dir) == {f.name : f \in dir}

\* A file that does not exist.
MissingFile == [exists |-> FALSE, head |-> "", items |-> <<>>, closed |-> FALSE]

\* An index file as the text written to it so far: the opening chunk ("[" of a
\* list, "{" of an object, "x" of text that is no JSON), the entries written,
\* and whether the closing chunk was written.
GarbageFile == [exists |-> TRUE, head |-> "x", items |-> <<>>, closed |-> TRUE]
ObjectFile  == [exists |-> TRUE, head |-> "{", items |-> <<>>, closed |-> TRUE]
EmptyFile   == [exists |-> TRUE, head |-> "", items |-> <<>>, closed |-> FALSE]

\* open(idx_path, 'w'): the file is created or truncated.
OpenForWrite(file) == EmptyFile

\* json.dump(combined, jf) as a whole.
JsonDump(list) == [exists |-> TRUE, head |-> "[", items |-> list, closed |-> TRUE]

\* json.load(jf): raises on text that is no complete JSON value.
JsonLoad(file) ==
    IF file.closed /\ file.head = "[" THEN [raised |-> FALSE, isList |-> TRUE,  data |-> file.items]
    ELSE IF file.closed /\ file.head = "{" THEN [raised |-> FALSE, isList |-> FALSE, data |-> <<>>]
    ELSE [raised |-> TRUE, isList |-> FALSE, data |-> <<>>]

\* No output file, a complete one, and one cut short.
NoOutput == [exists |-> FALSE, complete |-> FALSE, pages |-> <<>>, outline |-> <<>>]
CompleteOutput(m) == [exists |-> TRUE, complete |-> TRUE, pages |-> m.pages, outline |-> m.outline]
PartialOutput == [exists |-> TRUE, complete |-> FALSE, pages |-> <<>>, outline |-> <<>>]

\* args.output and os.path.basename(args.output)
OutputPath == <<"o", "/", "m", ".", "p", "d", "f">>
OutputBasename == Basename(OutputPath)

-----------------------------------------------------------------------------
(* merge_and_process *)

EmptyMerger == [pages |-> <<>>, outline |-> <<>>]

\* The file at a path find_pdfs returned.
FileAt(path) == CHOOSE f \in inputDir : PathJoin(InputRoot, f.name) = path

get_pdf_metadata(file) ==
    IF file.meta_ok THEN [title |-> file.title, pages |-> file.pages]
    ELSE [title |-> <<>>, pages |-> 0]

extract_text_from_pdf(file) == IF file.text_ok THEN "text" ELSE ""

\* The summary TextRank (or the truncation fallback) makes of a text is not
\* modelled beyond being empty for an empty text.
summarize_text(text) == IF text = "" THEN "" ELSE "summary"

\* metadata["title"] or name_without_ext, sanitized
BookmarkTitle(path, metadata) ==
    sanitize_bookmark_title(
        IF metadata.title # <<>> THEN metadata.title ELSE SplitextRoot(Basename(path)),
        DefaultMaxLength)

\* merger.append(pdf_path, outline_item=bookmark_title): the pages of the file
\* follow those already in the merger, and the outline item points at the first.
MergerAppend(m, file, bookmark_title) ==
    [pages   |-> m.pages \o [i \in 1..file.pages |-> file.name],
     outline |-> Append(m.outline, [title |-> bookmark_title, page |-> Len(m.pages) + 1])]

NewEntry(bookmark_title, cur, metadata, summary) ==
    [bookmark    |-> bookmark_title,
     page_number |-> cur + 1,
     page_count  |-> metadata.pages,
     summary     |-> summary,
     filename    |-> OutputBasename]

\* An advance of the offset by one page per source.
AdvanceByOne(cur, metadata) == cur + 1

\* current_page += metadata["pages"]
AdvancePage(cur, metadata) == cur + metadata.pages

\* A run that goes on to the index whatever merger.write did.
AlwaysIndex(res) == "index"

\* After merger.write: on to the index, or sys.exit(1).
PcAfterWrite(res) == IF res = "ok" THEN "index" ELSE "idle"

\* An index read that keeps nothing of the existing file.
ExistingDropped(file) == <<>>

\* existing_entries: the list in the index file, [] when there is no file, when
\* json.load raises, or when the data is not a list.
ExistingEntries(file) ==
    IF ~file.exists THEN <<>>
    ELSE LET r == JsonLoad(file)
         IN  IF ~r.raised /\ r.isList THEN r.data ELSE <<>>

\* entry["filename"] = os.path.basename(args.output), for every new entry
WithFilename(es) == [i \in 1..Len(es) |-> [es[i] EXCEPT !.filename = OutputBasename]]

\* combined = existing_entries + entries
Combined(existing, es) == existing \o WithFilename(es)

\* A run starts: a new process, nothing yet in its locals.
BeginRun ==
    /\ pc = "idle"
    /\ runs < MaxRuns
    /\ runs' = runs + 1
    /\ failed' = <<>>
    /\ outputBefore' = outputFile
    /\ indexBefore' = indexFile
    /\ outDirBefore' = outDirExists
    /\ entries' = <<>>
    /\ current_page' = 0
    /\ merger' = EmptyMerger
    /\ combined' = <<>>
    /\ idx' = 1

\* args.input is no directory: sys.exit(1).
RunMissingInput ==
    /\ BeginRun
    /\ pdfs' = <<>>
    /\ pc' = "idle"
    /\ outcome' = "fatal_input"
    /\ UNCHANGED <<fsVars, findVars, sanVars>>

\* find_pdfs finds nothing: return.
RunNoPdfs ==
    /\ BeginRun
    /\ \E listing \in Listings(FileNames(inputDir)), rec \in BOOLEAN :
          /\ find_pdfs(InputRoot, listing, rec) = <<>>
          /\ pdfs' = <<>>
    /\ pc' = "idle"
    /\ outcome' = "nothing"
    /\ UNCHANGED <<fsVars, findVars, sanVars>>

\* find_pdfs finds sources: the output directory is made and the loop entered.
RunStart ==
    /\ BeginRun
    /\ \E listing \in Listings(FileNames(inputDir)), rec \in BOOLEAN :
          /\ find_pdfs(InputRoot, listing, rec) # <<>>
          /\ pdfs' = find_pdfs(InputRoot, listing, rec)
    /\ outDirExists' = TRUE
    /\ pc' = "loop"
    /\ outcome' = "running"
    /\ UNCHANGED <<inputDir, outputFile, indexFile, findVars, sanVars>>

\* One pass of the for loop, its try and its except.
ProcessPdf ==
    /\ pc = "loop"
    /\ idx <= Len(pdfs)
    /\ LET pdf_path       == pdfs[idx]
           file           == FileAt(pdf_path)
           metadata       == get_pdf_metadata(file)
           bookmark_title == BookmarkTitle(pdf_path, metadata)
           summary        == summarize_text(extract_text_from_pdf(file))
       IN  /\ IF file.append_ok
              THEN /\ merger' = MergerAppend(merger, file, bookmark_title)
                   /\ entries' = Append(entries,
                                    NewEntry(bookmark_title, current_page, metadata, summary))
                   /\ current_page' = AdvancePage(current_page, metadata)
              ELSE UNCHANGED <<merger, entries, current_page>>
           /\ failed' = Append(failed, ~(file.meta_ok /\ file.text_ok /\ file.append_ok))
    /\ idx' = idx + 1
    /\ UNCHANGED <<fsVars, pc, pdfs, combined, runs, outcome,
                   outputBefore, indexBefore, outDirBefore, findVars, sanVars>>

\* merger.write(args.output), then merger.close(): the file is written whole
\* ("ok"), cannot be opened ("fail_open"), or is opened and the write raises
\* partway ("fail_partial"); on either failure sys.exit(1).
WriteOutput ==
    /\ pc = "loop"
    /\ idx > Len(pdfs)
    /\ \E res \in {"ok", "fail_open", "fail_partial"} :
          /\ outputFile' = CASE res = "ok"           -> CompleteOutput(merger)
                             [] res = "fail_open"    -> outputFile
                             [] res = "fail_partial" -> PartialOutput
          /\ pc' = PcAfterWrite(res)
          /\ outcome' = IF res = "ok" THEN "written" ELSE "fatal_write"
    /\ merger' = EmptyMerger
    /\ UNCHANGED <<inputDir, outDirExists, indexFile, pdfs, idx, entries, current_page,
                   combined, runs, failed, outputBefore, indexBefore, outDirBefore,
                   findVars, sanVars>>

\* The existing index is read, combined is made, and the index file is opened
\* for writing.
OpenIndex ==
    /\ pc = "index"
    /\ combined' = Combined(ExistingEntries(indexFile), entries)
    /\ entries' = WithFilename(entries)
    /\ indexFile' = OpenForWrite(indexFile)
    /\ pc' = "dump"
    /\ UNCHANGED <<inputDir, outDirExists, outputFile, pdfs, idx, current_page, merger,
                   histVars, findVars, sanVars>>

\* json.dump writes the next chunk of the text: the opening bracket, then entry
\* after entry.
DumpChunk ==
    /\ pc = "dump"
    /\ \/ /\ indexFile.head = ""
          /\ indexFile' = [indexFile EXCEPT !.head = "["]
       \/ /\ indexFile.head = "["
          /\ Len(indexFile.items) < Len(combined)
          /\ indexFile' = [indexFile EXCEPT
                             !.items = Append(@, combined[Len(indexFile.items) + 1])]
    /\ UNCHANGED <<inputDir, outDirExists, outputFile, runVars, histVars, findVars, sanVars>>

\* json.dump writes the closing bracket, the file is closed and the run ends.
FinishIndex ==
    /\ pc = "dump"
    /\ indexFile.head = "["
    /\ Len(indexFile.items) = Len(combined)
    /\ indexFile' = [indexFile EXCEPT !.closed = TRUE]
    /\ pc' = "idle"
    /\ outcome' = "ok"
    /\ UNCHANGED <<inputDir, outDirExists, outputFile, pdfs, idx, entries, current_page,
                   merger, combined, runs, failed, outputBefore, indexBefore, outDirBefore,
                   findVars, sanVars>>

\* The process is killed while the index is being written.
Crash ==
    /\ pc = "dump"
    /\ pc' = "idle"
    /\ outcome' = "crashed"
    /\ UNCHANGED <<fsVars, pdfs, idx, entries, current_page, merger, combined, runs,
                   failed, outputBefore, indexBefore, outDirBefore, findVars, sanVars>>

\* The locals and the history before the first run.
NoRunYet ==
    /\ pc = "idle"
    /\ pdfs = <<>>
    /\ idx = 1
    /\ entries = <<>>
    /\ current_page = 0
    /\ merger = EmptyMerger
    /\ combined = <<>>
    /\ runs = 0
    /\ outcome = "none"
    /\ failed = <<>>
    /\ outputBefore = outputFile
    /\ indexBefore = indexFile
    /\ outDirBefore = outDirExists

NoFindCall == recursive = FALSE /\ found = <<>>

NoSanitizeCall == sTitle = <<>> /\ sMaxLength = 0 /\ sResult = <<>> /\ sDone = FALSE

\* Directories of files of one page, in every condition of FileConds; no index
\* yet, or one that is no list.
Init ==
    /\ \E names \in SUBSET RunNames :
          \E c \in [names -> FileConds] :
              inputDir = {MakeFile(n, TitleOf(n), 1, c[n]) : n \in names}
    /\ outputFile = NoOutput
    /\ indexFile \in {MissingFile, GarbageFile, ObjectFile}
    /\ outDirExists = indexFile.exists
    /\ NoRunYet
    /\ NoFindCall
    /\ NoSanitizeCall

Next ==
    \/ RunMissingInput
    \/ RunNoPdfs
    \/ RunStart
    \/ ProcessPdf
    \/ WriteOutput
    \/ OpenIndex
    \/ DumpChunk
    \/ FinishIndex
    \/ Crash

Spec == Init /\ [][Next]_vars

-----------------------------------------------------------------------------
(* merge_and_process up to the written output, over files in every condition. *)

\* Directories of files of 0..MaxPages pages, in every condition of FileConds.
InitLoop ==
    /\ \E names \in SUBSET RunNames :
          \E p \in [names -> 0..MaxPages], c \in [names -> FileConds] :
              inputDir = {MakeFile(n, TitleOf(n), p[n], c[n]) : n \in names}
    /\ outputFile = NoOutput
    /\ indexFile = MissingFile
    /\ outDirExists = FALSE
    /\ NoRunYet
    /\ NoFindCall
    /\ NoSanitizeCall

NextLoop ==
    \/ RunMissingInput
    \/ RunNoPdfs
    \/ RunStart
    \/ ProcessPdf
    \/ WriteOutput

SpecLoop == InitLoop /\ [][NextLoop]_vars

-----------------------------------------------------------------------------
(* find_pdfs called on its own, several times on one directory. *)

FindPdfs ==
    /\ Len(found) < MaxCalls
    /\ \E listing \in Listings(FileNames(inputDir)) :
          found' = Append(found, find_pdfs(InputRoot, listing, recursive))
    /\ UNCHANGED <<fsVars, runVars, histVars, recursive, sanVars>>

InitFind ==
    /\ \E names \in SUBSET FindNames :
          /\ Cardinality(names) <= MaxDirFiles
          /\ inputDir = {PlainFile(n) : n \in names}
    /\ outputFile = NoOutput
    /\ indexFile = MissingFile
    /\ outDirExists = FALSE
    /\ NoRunYet
    /\ recursive \in BOOLEAN
    /\ found = <<>>
    /\ NoSanitizeCall

NextFind == FindPdfs

SpecFind == InitFind /\ [][NextFind]_vars

-----------------------------------------------------------------------------
(* sanitize_bookmark_title called on its own. *)

\* The characters of the titles tried.
TitleChars == {"a", ".", "\\", "/", ":"}

Titles == UNION {[1..n -> TitleChars] : n \in 0..MaxTitleLen}

Sanitize ==
    /\ ~sDone
    /\ sResult' = sanitize_bookmark_title(sTitle, sMaxLength)
    /\ sDone' = TRUE
    /\ UNCHANGED <<fsVars, runVars, histVars, findVars, sTitle, sMaxLength>>

InitSanitize ==
    /\ inputDir = {}
    /\ outputFile = NoOutput
    /\ indexFile = MissingFile
    /\ outDirExists = FALSE
    /\ NoRunYet
    /\ NoFindCall
    /\ sTitle \in Titles
    /\ sMaxLength \in 0..MaxLengthArg
    /\ sResult = <<>>
    /\ sDone = FALSE

NextSanitize == Sanitize

SpecSanitize == InitSanitize /\ [][NextSanitize]_vars

-----------------------------------------------------------------------------
(* The properties. *)

\* C1: within one run the first entry has page_number 1 and each later entry
\* starts where the one before it ends by its own page_count:
\* page_number[i+1] = page_number[i] + page_count[i], sources skipped or not.
C1_PageNumbersChain ==
    entries # <<>> =>
        /\ entries[1].page_number = 1
        /\ \A i \in 1..(Len(entries) - 1) :
              entries[i + 1].page_number = entries[i].page_number + entries[i].page_count

\* Three entries, the second of a source of no pages: page numbers 1, 2, 2.
C1_Witness ==
    /\ Len(entries) = 3
    /\ entries[1].page_count = 1
    /\ entries[2].page_count = 0
    /\ entries[2].page_number = 2
    /\ entries[3].page_number = 2

\* C2: the page_number of every entry is the page of the combined output at
\* which the pages merger.append added for that source begin, which is where
\* the outline item of the source points.
C2_PageNumberIsWhereSourceBegins ==
    pc = "loop" =>
        \A k \in 1..Len(entries) : entries[k].page_number = merger.outline[k].page

\* C3: when the loop is over there is one entry per discovered source, and the
\* entry of a source a step of whose processing failed has page_count 0 and an
\* empty summary.
C3_EntryForEverySource ==
    (pc = "loop" /\ idx > Len(pdfs)) =>
        /\ Len(entries) = Len(pdfs)
        /\ \A k \in 1..Len(pdfs) :
              failed[k] => entries[k].page_count = 0 /\ entries[k].summary = ""

\* C4: after a successful run no two entries of the persisted index have the
\* same (filename, bookmark).
C4_NoDuplicateKeys ==
    (pc = "idle" /\ outcome = "ok") =>
        \A i, j \in 1..Len(indexFile.items) :
            i # j =>
                \/ indexFile.items[i].filename # indexFile.items[j].filename
                \/ indexFile.items[i].bookmark # indexFile.items[j].bookmark

\* C5: the index a successful run leaves is a complete list: the entries of the
\* index as it was before the run, in their order (none when it was missing, no
\* complete JSON text, or no list), followed by the entries of the run.
C5_IndexIsOldThenNew ==
    (pc = "idle" /\ outcome = "ok") =>
        LET old == IF indexBefore.exists /\ indexBefore.closed /\ indexBefore.head = "["
                   THEN indexBefore.items ELSE <<>>
        IN  /\ indexFile.exists
            /\ indexFile.closed
            /\ indexFile.head = "["
            /\ indexFile.items = old \o entries
            /\ \A k \in 1..Len(entries) : entries[k].filename = OutputBasename

\* A successful run that found entries in the index and added its own.
C5_Witness ==
    /\ pc = "idle"
    /\ outcome = "ok"
    /\ indexBefore.closed
    /\ indexBefore.head = "["
    /\ Len(indexBefore.items) >= 1
    /\ Len(entries) >= 2
    /\ Len(indexFile.items) = Len(indexBefore.items) + Len(entries)

\* C6: after a crash while the index was being written, the index file is the
\* complete file from before the run or the complete new one.
C6_IndexReplacedAtomically ==
    outcome = "crashed" =>
        \/ indexFile = indexBefore
        \/ indexFile = JsonDump(combined)

\* C7: after a failed merger.write the output path holds what it held before the
\* run or nothing, and an output file that exists is a complete one.
C7_OutputAllOrNothing ==
    /\ outcome = "fatal_write" => (outputFile = outputBefore \/ ~outputFile.exists)
    /\ outputFile.exists => outputFile.complete

\* C8: a run that ends on a missing input directory has changed nothing on disk;
\* a run that ends on a failed merger.write has left the index as it was; and the
\* index is read and written only after the combined output was written whole.
C8_FatalLeavesIndexAlone ==
    /\ outcome = "fatal_input" =>
          /\ outDirExists = outDirBefore
          /\ outputFile = outputBefore
          /\ indexFile = indexBefore
    /\ outcome = "fatal_write" => indexFile = indexBefore
    /\ (pc \in {"index", "dump"} \/ indexFile # indexBefore) =>
          /\ outcome \in {"written", "ok", "crashed"}
          /\ outputFile.exists
          /\ outputFile.complete

\* A second run whose merger.write failed partway, over the index of the first.
C8_Witness ==
    /\ pc = "idle"
    /\ outcome = "fatal_write"
    /\ outputFile = PartialOutput
    /\ indexFile.closed
    /\ Len(indexFile.items) >= 1

C10_FindPdfsDeterministic ==
    /\ \A c \in 1..Len(found) :
          /\ \A i, j \in 1..Len(found[c]) : i # j => found[c][i] # found[c][j]
          /\ {found[c][i] : i \in 1..Len(found[c])} =
                {PathJoin(InputRoot, n) : n \in
                    {m \in FileNames(inputDir) :
                        EndsWithPdf(m) /\ (recursive \/ LastIndexOf(m, "/") = 0)}}
          /\ \A i, j \in 1..Len(found[c]) :
                i < j => ~NaturalLess(found[c][j], found[c][i])
    /\ \A c, d \in 1..Len(found) : found[c] = found[d]

=============================================================================
